---- MODULE Spec2Model ----
(***************************************************************************)
(* The three-stage workflow of Voice-Spec-Driven Development: the shared   *)
(* ProjectState record, the TranscriptionAgent (agent 1), the repository   *)
(* provisioning stage (agent 2), the SprintInitAgent (agent 3) and the     *)
(* LangGraph controller with its error_handler node.                       *)
(*                                                                         *)
(* Text is modelled as a sequence of atoms (a str is a Seq of STRING       *)
(* atoms, "" is <<>>); the record `state` is a function from the keys that *)
(* are present in the dict to their values, so "field is set" is           *)
(* key \in DOMAIN state.                                                   *)
(***************************************************************************)
EXTENDS Integers, Sequences, FiniteSets, TLC

\* ------------------------------------------------------------------ bounds

\* number of distinct values each external collaborator may answer with
MaxVariants == 2
\* largest number of lines `git ls-files` prints
MaxFiles == 2

\* ------------------------------------------------------------ value domains

VariantPool == <<"v1", "v2", "v3", "v4">>
Variants == {VariantPool[i] : i \in 1..MaxVariants}

\* Python's None, as a value no modelled str is equal to
None == <<"NoneType">>

\* the newline character
NL == "\n"

PENDING == "pending"
IN_PROGRESS == "in_progress"
COMPLETED == "completed"
FAILED == "failed"

AudioPaths == {<<"spec.mp3">>, <<"idea.wav">>}
Dirs == {<<"/home/dev">>, <<"/srv/app">>}
FileNames == {"requirements.txt", "README.md", "go.mod"}

\* the five structured-specification fields, in the order execute assigns them
SpecFields ==
    <<"project_name", "project_description", "dev_specification",
      "tech_requirements", "features">>

SpecFieldSet == {SpecFields[i] : i \in 1..Len(SpecFields)}

\* the manifest names of the dependency heuristic
dependency_files ==
    <<"requirements.txt", "package.json", "Cargo.toml", "go.mod", "pom.xml", "Gemfile">>

\* ------------------------------------------------------------- exceptions

Exc(type, msg) == [type |-> type, msg |-> msg]
NoExc == Exc("none", <<>>)

\* ------------------------------------------------------------ text helpers

\* str.strip(): leading and trailing whitespace (here: newlines) removed
RECURSIVE LStrip(_)
LStrip(s) == IF s # <<>> /\ Head(s) = NL THEN LStrip(Tail(s)) ELSE s

RECURSIVE RStrip(_)
RStrip(s) ==
    IF s # <<>> /\ s[Len(s)] = NL THEN RStrip(SubSeq(s, 1, Len(s) - 1)) ELSE s

Strip(s) == RStrip(LStrip(s))

\* str.split('\n'): the pieces between newlines; "".split('\n') is [""]
RECURSIVE SplitFrom(_, _)
SplitFrom(s, cur) ==
    IF s = <<>> THEN <<cur>>
    ELSE IF Head(s) = NL THEN <<cur>> \o SplitFrom(Tail(s), <<>>)
    ELSE SplitFrom(Tail(s), Append(cur, Head(s)))

Split(s) == SplitFrom(s, <<>>)

\* `needle in text` for str
Contains(text, needle) ==
    \E i \in 0..(Len(text) - Len(needle)) :
        SubSeq(text, i + 1, i + Len(needle)) = needle

\* the texts of a list one after the other, as a print of the list shows them
RECURSIVE Concat(_)
Concat(list) == IF list = <<>> THEN <<>> ELSE Head(list) \o Concat(Tail(list))

\* `x in list`
InList(x, list) == \E i \in 1..Len(list) : list[i] = x

\* dict item assignment  d[k] = v
Put(d, k, v) == [x \in (DOMAIN d) \cup {k} |-> IF x = k THEN v ELSE d[x]]

\* ------------------------------------------------------------------- state

VARIABLES
    state,          \* the ProjectState dict threaded through the nodes
    pc,             \* where the run is: a controller node or a line inside a stage
    exc,            \* the exception being handled / propagated (NoExc if none)
    audio_exists,   \* whether the audio file is on disk
    cwd,            \* the process working directory
    original_cwd,   \* execute_claude_code's local original_cwd
    prompt_file,    \* whether the temporary prompt file is on disk
    result,         \* the CompletedProcess of the claude subprocess (NoResult before)
    visited,        \* the nodes the controller has invoked, in order
    env,            \* which of the required environment variables are set
    mode,           \* how the process was started: run FILE, run, or no subcommand
    audio_path,     \* the audio file given on the command line or picked in the menu
    audio_seen,     \* what the last existence check of the audio file found
    exit_code,      \* the process exit code, <<>> while the process runs
    processed,      \* the collision slots already taken in the processed directory
    moved_to,       \* the slot the audio file was moved to, <<>> if it was not moved
    displayed,      \* the texts printed for the operator
    claude_calls,   \* how many times the claude subprocess has been started
    gemini_calls,   \* the remote calls stage 1 has issued, in order
    ls_stdout       \* what the last `git ls-files` of get_commit_info printed

\* the variables only the command-line layer writes
cliVars == <<env, mode, audio_path, audio_seen, exit_code, processed, moved_to>>

vars == <<state, pc, exc, audio_exists, cwd, original_cwd, prompt_file, result, visited,
          cliVars, displayed, claude_calls, gemini_calls, ls_stdout>>

\* no ProjectState has been created yet
NoRecord == [k \in {} |-> k]

\* no subprocess has returned yet
NoResult == [ran |-> FALSE, returncode |-> 0, stderr |-> <<>>]

create_initial_state(audio_file_path) ==
    [audio_file_path |-> audio_file_path,
     current_agent |-> "start",
     agent_1_status |-> PENDING,
     agent_2_status |-> PENDING,
     agent_3_status |-> PENDING,
     errors |-> <<>>,
     warnings |-> <<>>,
     completed |-> FALSE]

\* workflow.set_entry_point
EntryPointSkipsAgent1 == "agent_2"

EntryPoint == "agent_1"

\* how the process can be started: `cli run FILE`, `cli run`, `cli`
Modes == {"run_file", "run_menu", "bare"}

\* validate_environment's required_vars, in dict order
required_vars == <<"GEMINI_API_KEY", "GITHUB_TOKEN">>

\* the slots of the processed directory: 0 is AUDIO_PROCESSED / name, k > 0 is
\* AUDIO_PROCESSED / f"{stem}_{k}{suffix}"
MaxTaken == 2

Init ==
    /\ state = NoRecord
    /\ pc = "cli_parse"
    /\ exc = NoExc
    /\ audio_exists \in BOOLEAN
    /\ cwd \in Dirs
    /\ original_cwd = None
    /\ prompt_file = FALSE
    /\ result = NoResult
    /\ visited = <<>>
    /\ env \in [{"GEMINI_API_KEY", "GITHUB_TOKEN"} -> BOOLEAN]
    /\ mode \in Modes
    /\ audio_path \in AudioPaths
    /\ audio_seen = "unchecked"
    /\ exit_code = <<>>
    /\ processed \in SUBSET (0..(MaxTaken - 1))
    /\ moved_to = <<>>
    /\ displayed = {}
    /\ claude_calls = 0
    /\ gemini_calls = <<>>
    /\ ls_stdout = <<>>

\* ------------------------------------------------- command line (cli.py)

\* the `missing` list of validate_environment
missing_vars(e) == SelectSeq(required_vars, LAMBDA v : ~e[v])

\* click parsing the arguments of `run`: click.Path(exists=True) rejects a path
\* that does not exist with a usage error (exit code 2) before run() is called
ClickParse ==
    /\ pc = "cli_parse"
    /\ \/ /\ mode = "run_file" /\ ~audio_exists
          /\ audio_seen' = "missing"
          /\ displayed' = displayed \cup
                {<<"Error: Invalid value for '[AUDIO_FILE]': Path does not exist: ">>
                 \o audio_path}
          /\ exit_code' = <<2>>
          /\ pc' = "exit"
       \/ /\ mode = "run_file" /\ audio_exists
          /\ audio_seen' = "present"
          /\ pc' = "run_validate"
          /\ UNCHANGED <<displayed, exit_code>>
       \/ /\ mode # "run_file"
          /\ pc' = IF mode = "run_menu" THEN "run_validate" ELSE "interactive_validate"
          /\ UNCHANGED <<audio_seen, displayed, exit_code>>
    /\ UNCHANGED <<state, exc, audio_exists, cwd, original_cwd, prompt_file, result,
                   visited, env, mode, audio_path, processed, moved_to, claude_calls, gemini_calls, ls_stdout>>

\* validate_environment, called first by run() and first by run_interactive()
validate_environment ==
    /\ pc \in {"run_validate", "interactive_validate"}
    /\ LET missing == missing_vars(env) IN
         \/ /\ missing # <<>>
            /\ displayed' = displayed
                    \cup {<<"Missing required environment variables:">>}
                    \cup {<<"  * ", missing[i]>> : i \in DOMAIN missing}
            /\ exit_code' = <<1>>
            /\ pc' = "exit"
         \/ /\ missing = <<>>
            /\ pc' = IF pc = "interactive_validate" THEN "menu"
                     ELSE IF mode = "run_file" THEN "run_check_audio"
                     ELSE "interactive_validate"
            /\ UNCHANGED <<displayed, exit_code>>
    /\ UNCHANGED <<state, exc, audio_exists, cwd, original_cwd, prompt_file, result,
                   visited, env, mode, audio_path, audio_seen, processed, moved_to,
                   claude_calls, gemini_calls, ls_stdout>>

\* run() going on although audio_path.exists() is false
run_check_audio_without_exit ==
    /\ pc = "run_check_audio"
    /\ audio_seen' = IF audio_exists THEN "present" ELSE "missing"
    /\ pc' = "run_workflow"
    /\ UNCHANGED <<state, exc, audio_exists, cwd, original_cwd, prompt_file, result,
                   visited, env, mode, audio_path, exit_code, processed, moved_to,
                   displayed, claude_calls, gemini_calls, ls_stdout>>

\* run(): audio_path = Path(audio_file).resolve(); if not audio_path.exists(): exit 1
run_check_audio ==
    /\ pc = "run_check_audio"
    /\ \/ /\ ~audio_exists
          /\ audio_seen' = "missing"
          /\ displayed' = displayed \cup {<<"Audio file not found: ">> \o audio_path}
          /\ exit_code' = <<1>>
          /\ pc' = "exit"
       \/ /\ audio_exists
          /\ audio_seen' = "present"
          /\ pc' = "run_workflow"
          /\ UNCHANGED <<displayed, exit_code>>
    /\ UNCHANGED <<state, exc, audio_exists, cwd, original_cwd, prompt_file, result,
                   visited, env, mode, audio_path, processed, moved_to, claude_calls, gemini_calls, ls_stdout>>

\* run_interactive after validation: display_audio_menu lists the files that are
\* in the inbox; the operator picks one, or there is none / the operator quits
run_interactive_menu(choice) ==
    /\ pc = "menu"
    /\ \/ /\ choice = "select" /\ audio_exists
          /\ audio_seen' = "present"
          /\ pc' = "run_workflow"
          /\ UNCHANGED <<displayed, exit_code>>
       \/ /\ choice = "none"
          /\ displayed' = displayed \cup {<<"No file selected. Exiting.">>}
          /\ exit_code' = <<0>>
          /\ pc' = "exit"
          /\ UNCHANGED audio_seen
    /\ UNCHANGED <<state, exc, audio_exists, cwd, original_cwd, prompt_file, result,
                   visited, env, mode, audio_path, processed, moved_to, claude_calls, gemini_calls, ls_stdout>>

\* run_workflow up to app.invoke: the record is created and the graph entered
run_workflow ==
    /\ pc = "run_workflow"
    /\ state' = create_initial_state(audio_path)
    /\ displayed' = displayed \cup {<<"Processing: ">> \o audio_path}
    /\ pc' = EntryPoint
    /\ UNCHANGED <<exc, audio_exists, cwd, original_cwd, prompt_file, result, visited,
                   cliVars, claude_calls, gemini_calls, ls_stdout>>

\* another process removing the audio file after it was checked or listed and
\* before transcribe_audio looks for it
AudioRemoved ==
    /\ pc \in {"run_validate", "run_check_audio", "run_workflow", "agent_1", "a1_transcribe"}
    /\ audio_exists
    /\ audio_exists' = FALSE
    /\ UNCHANGED <<state, pc, exc, cwd, original_cwd, prompt_file, result, visited,
                   cliVars, displayed, claude_calls, gemini_calls, ls_stdout>>

\* the destination slot always being the plain name
move_to_processed_overwrites(taken) == 0

\* move_to_processed: the first destination that does not exist yet, trying the
\* plain name and then the suffixes _1, _2, ...
RECURSIVE FirstFree(_, _)
FirstFree(taken, counter) ==
    IF counter \notin taken THEN counter ELSE FirstFree(taken, counter + 1)

move_to_processed(taken) == FirstFree(taken, 0)

\* run_workflow after app.invoke returned final_state
run_workflow_report ==
    /\ pc = "end"
    /\ \/ /\ state["completed"] /\ audio_exists
          /\ displayed' = displayed \cup
                {state["success_message"],
                 <<"Name: ">> \o state["project_name"],
                 <<"Moved audio file to slot">>}
          /\ moved_to' = <<move_to_processed(processed)>>
          /\ audio_exists' = FALSE
          /\ exit_code' = <<0>>
          /\ UNCHANGED exc
       \/ /\ ~state["completed"]
          /\ displayed' = displayed \cup
                {<<"Workflow completed with errors">> \o Concat(state["errors"])}
          /\ exit_code' = <<1>>
          /\ UNCHANGED <<moved_to, audio_exists, exc>>
    /\ pc' = "exit"
    /\ UNCHANGED <<state, cwd, original_cwd, prompt_file, result, visited, env, mode,
                   audio_path, audio_seen, processed, claude_calls, gemini_calls, ls_stdout>>

\* run_workflow: except Exception as e
run_workflow_exception ==
    /\ pc = "raised"
    /\ displayed' = displayed \cup
            {<<"Workflow failed with error:">> \o exc.msg,
             <<"Traceback (most recent call last): ", exc.type, ": ">> \o exc.msg}
    /\ exit_code' = <<1>>
    /\ pc' = "exit"
    /\ UNCHANGED <<state, exc, audio_exists, cwd, original_cwd, prompt_file, result,
                   visited, env, mode, audio_path, audio_seen, processed, moved_to,
                   claude_calls, gemini_calls, ls_stdout>>

\* run_workflow: except KeyboardInterrupt
run_workflow_interrupted ==
    /\ pc = "interrupted"
    /\ displayed' = displayed \cup {<<"Workflow interrupted by user">>}
    /\ exit_code' = <<130>>
    /\ pc' = "exit"
    /\ UNCHANGED <<state, exc, audio_exists, cwd, original_cwd, prompt_file, result,
                   visited, env, mode, audio_path, audio_seen, processed, moved_to,
                   claude_calls, gemini_calls, ls_stdout>>

\* ------------------------------------------------------ agent 1 (Gemini)

\* what the two remote calls of transcribe_audio can answer
TranscribeOutcomes ==
    {[kind |-> "ok", text |-> <<"transcript ", v>>] : v \in Variants}
    \cup {[kind |-> "upload_failed", text |-> <<>>],
          [kind |-> "generate_failed", text |-> <<>>]}

\* the upload issued before the file is looked for
transcribe_calls_upload_before_check(exists, out) ==
    IF ~exists \/ out.kind = "upload_failed" THEN <<"files.upload">>
    ELSE <<"files.upload", "generate_content">>

\* transcribe_audio: the remote calls it issues before it returns or raises
transcribe_calls(exists, out) ==
    IF ~exists THEN <<>>
    ELSE IF out.kind = "upload_failed" THEN <<"files.upload">>
    ELSE <<"files.upload", "generate_content">>

\* transcribe_audio: the exception it raises (NoExc if it returns) and its value
transcribe_audio(audio_file_path, exists, out) ==
    IF ~exists
    THEN [raised |-> Exc("FileNotFoundError",
                         <<"Audio file not found: ">> \o audio_file_path),
          value |-> None]
    ELSE IF out.kind = "upload_failed"
    THEN [raised |-> Exc("ClientError", <<"upload failed">>), value |-> None]
    ELSE IF out.kind = "generate_failed"
    THEN [raised |-> Exc("ClientError", <<"generate_content failed">>), value |-> None]
    ELSE [raised |-> NoExc, value |-> out.text]

\* a JSON object of the model: the keys in S, each with the value of variant v
SpecData(S, v) == [k \in S |-> <<k, "=", v>>]

\* what the structured-output call can answer: a fault of the call, text that is
\* not JSON, JSON that is no object, or a JSON object with some of the fields
OptimizeOutcomes ==
    {[kind |-> "call_failed", data |-> <<>>],
     [kind |-> "bad_json", data |-> <<>>],
     [kind |-> "json_array", data |-> <<>>]}
    \cup {[kind |-> "json_object", data |-> SpecData(S, v)] :
            S \in SUBSET SpecFieldSet, v \in Variants}

optimize_specification(out) ==
    IF out.kind = "call_failed"
    THEN [raised |-> Exc("ClientError", <<"generate_content failed">>), value |-> None]
    ELSE IF out.kind = "bad_json"
    THEN [raised |-> Exc("JSONDecodeError", <<"Expecting value">>), value |-> None]
    ELSE [raised |-> NoExc, value |-> out]

\* execute's five assignments state[k] = spec_data[k], in order, from the i-th on:
\* the record they leave and the exception that stopped them
RECURSIVE AssignSpecFields(_, _, _)
AssignSpecFields(st, spec_data, i) ==
    IF i > Len(SpecFields) THEN [st |-> st, raised |-> NoExc]
    ELSE IF spec_data.kind = "json_array"
    THEN [st |-> st,
          raised |-> Exc("TypeError", <<"list indices must be integers or slices, not str">>)]
    ELSE IF SpecFields[i] \notin DOMAIN spec_data.data
    THEN [st |-> st, raised |-> Exc("KeyError", <<SpecFields[i]>>)]
    ELSE AssignSpecFields(Put(st, SpecFields[i], spec_data.data[SpecFields[i]]),
                          spec_data, i + 1)

\* agent1_node entered without the IN_PROGRESS assignment
Agent1_Enter_SkipsInProgress ==
    /\ pc = "agent_1"
    /\ state' = Put(state, "current_agent", "agent_1_transcription")
    /\ visited' = Append(visited, "agent_1")
    /\ pc' = "a1_transcribe"
    /\ UNCHANGED <<exc, audio_exists, cwd, original_cwd, prompt_file, result>>
    /\ UNCHANGED <<cliVars, displayed, claude_calls, gemini_calls, ls_stdout>>

\* agent1_node, TranscriptionAgent.execute up to the try
Agent1_Enter ==
    /\ pc = "agent_1"
    /\ state' = Put(Put(state, "current_agent", "agent_1_transcription"),
                    "agent_1_status", IN_PROGRESS)
    /\ visited' = Append(visited, "agent_1")
    /\ pc' = "a1_transcribe"
    /\ UNCHANGED <<exc, audio_exists, cwd, original_cwd, prompt_file, result>>
    /\ UNCHANGED <<cliVars, displayed, claude_calls, gemini_calls, ls_stdout>>

\* the transcript key written whether or not transcribe_audio returned
Agent1_Transcribe_WritesOnFailure(out) ==
    /\ pc = "a1_transcribe"
    /\ LET r == transcribe_audio(state["audio_file_path"], audio_exists, out) IN
         /\ state' = Put(state, "transcript", r.value)
         /\ IF r.raised = NoExc
            THEN pc' = "a1_optimize" /\ UNCHANGED exc
            ELSE pc' = "a1_except" /\ exc' = r.raised
    /\ UNCHANGED <<audio_exists, cwd, original_cwd, prompt_file, result, visited>>
    /\ gemini_calls' = gemini_calls \o transcribe_calls(audio_exists, out)
    /\ UNCHANGED <<cliVars, displayed, claude_calls, ls_stdout>>

\* transcript = self.transcribe_audio(...); state["transcript"] = transcript
Agent1_Transcribe(out) ==
    /\ pc = "a1_transcribe"
    /\ LET r == transcribe_audio(state["audio_file_path"], audio_exists, out) IN
         \/ /\ r.raised = NoExc
            /\ state' = Put(state, "transcript", r.value)
            /\ pc' = "a1_optimize"
            /\ UNCHANGED exc
         \/ /\ r.raised # NoExc
            /\ exc' = r.raised
            /\ pc' = "a1_except"
            /\ UNCHANGED state
    /\ UNCHANGED <<audio_exists, cwd, original_cwd, prompt_file, result, visited>>
    /\ gemini_calls' = gemini_calls \o transcribe_calls(audio_exists, out)
    /\ UNCHANGED <<cliVars, displayed, claude_calls, ls_stdout>>

\* spec_data = self.optimize_specification(transcript); the five assignments;
\* state["agent_1_status"] = COMPLETED; return state
Agent1_Optimize(out) ==
    /\ pc = "a1_optimize"
    /\ LET r == optimize_specification(out) IN
         \/ /\ r.raised # NoExc
            /\ exc' = r.raised
            /\ pc' = "a1_except"
            /\ UNCHANGED state
         \/ /\ r.raised = NoExc
            /\ LET a == AssignSpecFields(state, r.value, 1) IN
                 \/ /\ a.raised = NoExc
                    /\ state' = Put(a.st, "agent_1_status", COMPLETED)
                    /\ pc' = "a1_return"
                    /\ UNCHANGED exc
                 \/ /\ a.raised # NoExc
                    /\ state' = a.st
                    /\ exc' = a.raised
                    /\ pc' = "a1_except"
    /\ UNCHANGED <<audio_exists, cwd, original_cwd, prompt_file, result, visited>>
    /\ gemini_calls' = Append(gemini_calls, "generate_content")
    /\ UNCHANGED <<cliVars, displayed, claude_calls, ls_stdout>>

\* the except clause without its `raise`: the stage returns normally
Agent1_Except_Swallows ==
    /\ pc = "a1_except"
    /\ displayed' = displayed \cup {<<"   Error: ">> \o exc.msg}
    /\ state' = Put(Put(state, "agent_1_status", FAILED),
                    "errors", Append(state["errors"], <<"Agent 1 failed: ">> \o exc.msg))
    /\ pc' = "a1_return"
    /\ UNCHANGED <<exc, audio_exists, cwd, original_cwd, prompt_file, result, visited>>
    /\ UNCHANGED <<cliVars, claude_calls, gemini_calls, ls_stdout>>

\* except Exception as e: status FAILED, one diagnostic appended, raise
Agent1_Except ==
    /\ pc = "a1_except"
    /\ displayed' = displayed \cup {<<"   Error: ">> \o exc.msg}
    /\ state' = Put(Put(state, "agent_1_status", FAILED),
                    "errors", Append(state["errors"], <<"Agent 1 failed: ">> \o exc.msg))
    /\ pc' = "raised"
    /\ UNCHANGED <<exc, audio_exists, cwd, original_cwd, prompt_file, result, visited>>
    /\ UNCHANGED <<cliVars, claude_calls, gemini_calls, ls_stdout>>

\* -------------------------------- agent 2 (repository provisioning)

\* what the provisioning stage can end with: the four fields it exposes, or a
\* failure that it reports by its status flag, or a failure that it re-raises
Agent2Outcomes ==
    {[kind |-> "ok", v |-> v] : v \in Variants}
    \cup {[kind |-> "failed_returned", v |-> ""],
          [kind |-> "failed_raised", v |-> ""]}

Agent2Fields(st, v) ==
    Put(Put(Put(Put(st,
        "repo_url", <<"https://github.com/dev/", v>>),
        "repo_owner", <<"dev">>),
        "local_repo_path", <<"/repos/", v>>),
        "claude_md_content", <<"# CLAUDE.md ", v>>)

Agent2_Enter ==
    /\ pc = "agent_2"
    /\ state' = Put(Put(state, "current_agent", "agent_2_repo_creation"),
                    "agent_2_status", IN_PROGRESS)
    /\ visited' = Append(visited, "agent_2")
    /\ pc' = "a2_run"
    /\ UNCHANGED <<exc, audio_exists, cwd, original_cwd, prompt_file, result>>
    /\ UNCHANGED <<cliVars, displayed, claude_calls, gemini_calls, ls_stdout>>

Agent2_Run(out) ==
    /\ pc = "a2_run"
    /\ \/ /\ out.kind = "ok"
          /\ state' = Put(Agent2Fields(state, out.v), "agent_2_status", COMPLETED)
          /\ pc' = "a2_return"
          /\ UNCHANGED exc
       \/ /\ out.kind = "failed_returned"
          /\ state' = Put(Put(state, "agent_2_status", FAILED),
                          "errors", Append(state["errors"], <<"Agent 2 failed: ", "provisioning">>))
          /\ pc' = "a2_return"
          /\ UNCHANGED exc
       \/ /\ out.kind = "failed_raised"
          /\ state' = Put(Put(state, "agent_2_status", FAILED),
                          "errors", Append(state["errors"], <<"Agent 2 failed: ", "provisioning">>))
          /\ exc' = Exc("RuntimeError", <<"provisioning">>)
          /\ pc' = "raised"
    /\ UNCHANGED <<audio_exists, cwd, original_cwd, prompt_file, result, visited>>
    /\ UNCHANGED <<cliVars, displayed, claude_calls, gemini_calls, ls_stdout>>

\* -------------------------------------------- agent 3 (coding-agent CLI)

\* create_claude_prompt: state[...] subscripts raise KeyError on an absent key
create_claude_prompt(st) ==
    IF "project_name" \notin DOMAIN st
    THEN [raised |-> Exc("KeyError", <<"project_name">>), value |-> None]
    ELSE IF "project_description" \notin DOMAIN st
    THEN [raised |-> Exc("KeyError", <<"project_description">>), value |-> None]
    ELSE IF "dev_specification" \notin DOMAIN st
    THEN [raised |-> Exc("KeyError", <<"dev_specification">>), value |-> None]
    ELSE [raised |-> NoExc,
          value |-> <<"PROJECT: ">> \o st["project_name"]
                    \o <<"DESCRIPTION: ">> \o st["project_description"]
                    \o <<"FULL SPECIFICATION: ">> \o st["dev_specification"]]

StderrTexts == {<<>>} \cup {<<"stderr ", v>> : v \in Variants}

\* what subprocess.run(["claude", ...], timeout=600) can end with
ClaudeOutcomes ==
    {[kind |-> "exit", returncode |-> rc, stderr |-> s] :
        rc \in {0, 1}, s \in StderrTexts}
    \cup {[kind |-> "timeout", returncode |-> 0, stderr |-> <<>>],
          [kind |-> "launch_failed", returncode |-> 0, stderr |-> <<>>],
          [kind |-> "interrupt", returncode |-> 0, stderr |-> <<>>]}

\* the finally clause of execute_claude_code: os.chdir(original_cwd)
ecc_finally_on_return_only(raising) ==
    IF raising THEN UNCHANGED cwd ELSE cwd' = original_cwd

ecc_finally(raising) == cwd' = original_cwd

\* SprintInitAgent.execute up to the try, agent3_node
Agent3_Enter ==
    /\ pc = "agent_3"
    /\ state' = Put(Put(state, "current_agent", "agent_3_sprint_init"),
                    "agent_3_status", IN_PROGRESS)
    /\ visited' = Append(visited, "agent_3")
    /\ pc' = "a3_prompt"
    /\ UNCHANGED <<exc, audio_exists, cwd, original_cwd, prompt_file, result>>
    /\ UNCHANGED <<cliVars, displayed, claude_calls, gemini_calls, ls_stdout>>

\* prompt = self.create_claude_prompt(state); repo_path = state["local_repo_path"];
\* execute_claude_code: original_cwd = os.getcwd()
Agent3_Prompt ==
    /\ pc = "a3_prompt"
    /\ LET p == create_claude_prompt(state) IN
         IF p.raised # NoExc
         THEN exc' = p.raised /\ pc' = "a3_except" /\ UNCHANGED original_cwd
         ELSE IF "local_repo_path" \notin DOMAIN state
         THEN /\ exc' = Exc("KeyError", <<"local_repo_path">>)
              /\ pc' = "a3_except"
              /\ UNCHANGED original_cwd
         ELSE original_cwd' = cwd /\ pc' = "ecc_chdir" /\ UNCHANGED exc
    /\ UNCHANGED <<state, audio_exists, cwd, prompt_file, result, visited>>
    /\ UNCHANGED <<cliVars, displayed, claude_calls, gemini_calls, ls_stdout>>

\* os.chdir(repo_path)
ECC_Chdir(ok) ==
    /\ pc = "ecc_chdir"
    /\ \/ /\ ok
          /\ cwd' = state["local_repo_path"]
          /\ pc' = "ecc_tmpfile"
          /\ UNCHANGED exc
       \/ /\ ~ok
          /\ exc' = Exc("FileNotFoundError", <<"No such file or directory: ">>
                                              \o state["local_repo_path"])
          /\ ecc_finally(TRUE)
          /\ pc' = "a3_except"
    /\ UNCHANGED <<state, audio_exists, original_cwd, prompt_file, result, visited>>
    /\ UNCHANGED <<cliVars, displayed, claude_calls, gemini_calls, ls_stdout>>

\* with tempfile.NamedTemporaryFile(..., delete=False) as f: f.write(prompt)
ECC_TmpFile(ok) ==
    /\ pc = "ecc_tmpfile"
    /\ \/ /\ ok
          /\ prompt_file' = TRUE
          /\ pc' = "ecc_run"
          /\ UNCHANGED <<exc, cwd>>
       \/ /\ ~ok
          /\ exc' = Exc("OSError", <<"No space left on device">>)
          /\ ecc_finally(TRUE)
          /\ pc' = "a3_except"
          /\ UNCHANGED prompt_file
    /\ UNCHANGED <<state, audio_exists, original_cwd, result, visited>>
    /\ UNCHANGED <<cliVars, displayed, claude_calls, gemini_calls, ls_stdout>>

\* result = subprocess.run(...); os.unlink(prompt_file); the returncode test;
\* return; finally
ECC_Run(out) ==
    /\ pc = "ecc_run"
    /\ \/ /\ out.kind = "exit" /\ out.returncode = 0
          /\ result' = [ran |-> TRUE, returncode |-> out.returncode, stderr |-> out.stderr]
          /\ prompt_file' = FALSE
          /\ ecc_finally(FALSE)
          /\ pc' = "a3_commit_info"
          /\ UNCHANGED exc
       \/ /\ out.kind = "exit" /\ out.returncode # 0
          /\ result' = [ran |-> TRUE, returncode |-> out.returncode, stderr |-> out.stderr]
          /\ prompt_file' = FALSE
          /\ exc' = Exc("RuntimeError", <<"Claude Code failed: ">> \o out.stderr)
          /\ ecc_finally(TRUE)
          /\ pc' = "a3_except"
       \/ /\ out.kind = "timeout"
          /\ exc' = Exc("TimeoutExpired", <<"Command 'claude' timed out after 600 seconds">>)
          /\ ecc_finally(TRUE)
          /\ pc' = "a3_except"
          /\ UNCHANGED <<result, prompt_file>>
       \/ /\ out.kind = "launch_failed"
          /\ exc' = Exc("FileNotFoundError", <<"No such file or directory: 'claude'">>)
          /\ ecc_finally(TRUE)
          /\ pc' = "a3_except"
          /\ UNCHANGED <<result, prompt_file>>
       \/ /\ out.kind = "interrupt"
          /\ exc' = Exc("KeyboardInterrupt", <<>>)
          /\ ecc_finally(TRUE)
          /\ pc' = "interrupted"
          /\ UNCHANGED <<result, prompt_file>>
    /\ UNCHANGED <<state, audio_exists, original_cwd, visited>>
    /\ claude_calls' = claude_calls + 1
    /\ UNCHANGED <<cliVars, displayed, gemini_calls, ls_stdout>>

\* the tracked-file lists git can report, and the text ls-files prints for one
FileLists ==
    {fl \in UNION {[1..n -> FileNames] : n \in 0..MaxFiles} :
        \A i, j \in DOMAIN fl : i # j => fl[i] # fl[j]}

RECURSIVE Unlines(_)
Unlines(fl) == IF fl = <<>> THEN <<>> ELSE <<Head(fl), NL>> \o Unlines(Tail(fl))

\* what `git rev-parse HEAD` and `git ls-files` (check=True) can end with
RevParseOutcomes ==
    {[kind |-> "ok", stdout |-> <<"c0ffee", v, NL>>] : v \in Variants}
    \cup {[kind |-> "error", stdout |-> <<>>], [kind |-> "not_found", stdout |-> <<>>]}

LsFilesOutcomes ==
    {[kind |-> "ok", stdout |-> Unlines(fl)] : fl \in FileLists}
    \cup {[kind |-> "error", stdout |-> <<>>]}

get_commit_info(rev, ls) ==
    IF rev.kind = "not_found"
    THEN [raised |-> Exc("FileNotFoundError", <<"No such file or directory: 'git'">>),
          value |-> None]
    ELSE IF rev.kind = "error" \/ ls.kind = "error"
    THEN [raised |-> NoExc, value |-> [commit_sha |-> None, files |-> <<>>]]
    ELSE [raised |-> NoExc,
          value |-> [commit_sha |-> Strip(rev.stdout),
                     files |-> Split(Strip(ls.stdout))]]

\* commit_info['commit_sha'][:8] in the "Latest commit" line: None is not subscriptable
LatestCommitLineNeverRaises(commit_sha) == NoExc

LatestCommitLine(commit_sha) ==
    IF commit_sha = None
    THEN Exc("TypeError", <<"'NoneType' object is not subscriptable">>)
    ELSE NoExc

\* the heuristic looking for the first manifest name only
has_deps_first_manifest_only(files) == InList(<<dependency_files[1]>>, files)

\* has_deps = any(dep_file in commit_info["files"] for dep_file in dependency_files)
has_deps(files) ==
    \E i \in 1..Len(dependency_files) : InList(<<dependency_files[i]>>, files)

\* state["completed"] = True
MarkCompletedOmitted(st) == st

MarkCompleted(st) == Put(st, "completed", TRUE)

\* execute from state["initial_commit_sha"] = ... to state["completed"] = True:
\* the record it leaves and the exception that stopped it
Agent3_Record(st, commit_info) ==
    LET s1 == Put(Put(st, "initial_commit_sha", commit_info.commit_sha),
                  "files_created", commit_info.files)
        e1 == LatestCommitLine(commit_info.commit_sha)
        s2 == Put(Put(s1, "dependencies_installed", has_deps(commit_info.files)),
                  "agent_3_status", COMPLETED)
    IN  IF e1 # NoExc THEN [st |-> s1, raised |-> e1]
        ELSE IF "repo_url" \notin DOMAIN s2
        THEN [st |-> s2, raised |-> Exc("KeyError", <<"repo_url">>)]
        ELSE [st |-> MarkCompleted(
                        Put(s2, "success_message",
                            <<"Project initialized successfully! Local: ">>
                            \o s2["local_repo_path"] \o <<" Remote: ">> \o s2["repo_url"])),
              raised |-> NoExc]

\* commit_info = self.get_commit_info(repo_path) and the rest of the try body
Agent3_CommitInfo(rev, ls) ==
    /\ pc = "a3_commit_info"
    /\ LET g == get_commit_info(rev, ls) IN
         \/ /\ g.raised # NoExc
            /\ exc' = g.raised
            /\ pc' = "a3_except"
            /\ UNCHANGED state
         \/ /\ g.raised = NoExc
            /\ LET r == Agent3_Record(state, g.value) IN
                 \/ /\ r.raised = NoExc
                    /\ state' = r.st
                    /\ pc' = "a3_return"
                    /\ UNCHANGED exc
                 \/ /\ r.raised # NoExc
                    /\ state' = r.st
                    /\ exc' = r.raised
                    /\ pc' = "a3_except"
    /\ UNCHANGED <<audio_exists, cwd, original_cwd, prompt_file, result, visited>>
    /\ ls_stdout' = IF rev.kind = "ok" THEN ls.stdout ELSE ls_stdout
    /\ UNCHANGED <<cliVars, displayed, claude_calls, gemini_calls>>

\* the diagnostic of the two except clauses of execute
agent3_diagnostic_generic_only(e) == <<"Agent 3 failed: ">> \o e.msg

agent3_diagnostic(e) ==
    IF e.type = "TimeoutExpired"
    THEN <<"Agent 3 timeout: Claude Code took too long">>
    ELSE <<"Agent 3 failed: ">> \o e.msg

\* except subprocess.TimeoutExpired / except Exception as e: status FAILED, one
\* diagnostic appended, raise
Agent3_Except ==
    /\ pc = "a3_except"
    /\ displayed' = displayed \cup
            {IF exc.type = "TimeoutExpired"
             THEN <<"   Error: Execution timeout">>
             ELSE <<"   Error: ">> \o exc.msg}
    /\ state' = Put(Put(state, "agent_3_status", FAILED),
                    "errors", Append(state["errors"], agent3_diagnostic(exc)))
    /\ pc' = "raised"
    /\ UNCHANGED <<exc, audio_exists, cwd, original_cwd, prompt_file, result, visited>>
    /\ UNCHANGED <<cliVars, claude_calls, gemini_calls, ls_stdout>>

\* ------------------------------------------------------------- controller

should_continue_after_agent1(st) ==
    IF st["agent_1_status"] = COMPLETED THEN "agent_2" ELSE "error_handler"

\* the edge after stage 2 going on to stage 3 whatever stage 2 reported
should_continue_after_agent2_ignores_status(st) == "agent_3"

\* the edge after stage 2 sending a failed stage back into stage 2
should_continue_after_agent2_retries(st) ==
    IF st["agent_2_status"] = COMPLETED THEN "agent_3" ELSE "agent_2"

should_continue_after_agent2(st) ==
    IF st["agent_2_status"] = COMPLETED THEN "agent_3" ELSE "error_handler"

should_continue_after_agent3(st) ==
    IF st["agent_3_status"] = COMPLETED THEN "end" ELSE "error_handler"

\* the conditional edge taken when a node has returned
Route ==
    /\ pc \in {"a1_return", "a2_return", "a3_return"}
    /\ pc' = CASE pc = "a1_return" -> should_continue_after_agent1(state)
               [] pc = "a2_return" -> should_continue_after_agent2(state)
               [] pc = "a3_return" -> should_continue_after_agent3(state)
    /\ UNCHANGED <<state, exc, audio_exists, cwd, original_cwd, prompt_file, result, visited>>
    /\ UNCHANGED <<cliVars, displayed, claude_calls, gemini_calls, ls_stdout>>

\* the error sink naming itself as the current agent
error_handler_node_sets_current_agent ==
    /\ pc = "error_handler"
    /\ displayed' = displayed \cup
            {<<"Workflow Error">>,
             <<"Current agent: ", state["current_agent"]>>,
             <<"Errors: ">> \o Concat(state["errors"])}
    /\ state' = Put(Put(state, "completed", FALSE), "current_agent", "error_handler")
    /\ visited' = Append(visited, "error_handler")
    /\ pc' = "end"
    /\ UNCHANGED <<exc, audio_exists, cwd, original_cwd, prompt_file, result>>
    /\ UNCHANGED <<cliVars, claude_calls, gemini_calls, ls_stdout>>

\* the error sink resetting the diagnostics it has printed
error_handler_node_clears_errors ==
    /\ pc = "error_handler"
    /\ displayed' = displayed \cup
            {<<"Workflow Error">>,
             <<"Current agent: ", state["current_agent"]>>,
             <<"Errors: ">> \o Concat(state["errors"])}
    /\ state' = Put(Put(state, "completed", FALSE), "errors", <<>>)
    /\ visited' = Append(visited, "error_handler")
    /\ pc' = "end"
    /\ UNCHANGED <<exc, audio_exists, cwd, original_cwd, prompt_file, result>>
    /\ UNCHANGED <<cliVars, claude_calls, gemini_calls, ls_stdout>>

error_handler_node ==
    /\ pc = "error_handler"
    /\ displayed' = displayed \cup
            {<<"Workflow Error">>,
             <<"Current agent: ", state["current_agent"]>>,
             <<"Errors: ">> \o Concat(state["errors"])}
    /\ state' = Put(state, "completed", FALSE)
    /\ visited' = Append(visited, "error_handler")
    /\ pc' = "end"
    /\ UNCHANGED <<exc, audio_exists, cwd, original_cwd, prompt_file, result>>
    /\ UNCHANGED <<cliVars, claude_calls, gemini_calls, ls_stdout>>

\* KeyboardInterrupt while a stage blocks on a remote call or a git query: it is
\* no Exception, so no except clause of a stage handles it
Interrupt ==
    /\ pc \in {"a1_transcribe", "a1_optimize", "a2_run", "a3_commit_info"}
    /\ exc' = Exc("KeyboardInterrupt", <<>>)
    /\ pc' = "interrupted"
    /\ UNCHANGED <<state, audio_exists, cwd, original_cwd, prompt_file, result, visited>>
    /\ UNCHANGED <<cliVars, displayed, claude_calls, gemini_calls, ls_stdout>>

Next ==
    \/ Agent1_Enter
    \/ \E out \in TranscribeOutcomes : Agent1_Transcribe(out)
    \/ \E out \in OptimizeOutcomes : Agent1_Optimize(out)
    \/ Agent1_Except
    \/ Agent2_Enter
    \/ \E out \in Agent2Outcomes : Agent2_Run(out)
    \/ Agent3_Enter
    \/ Agent3_Prompt
    \/ \E ok \in BOOLEAN : ECC_Chdir(ok)
    \/ \E ok \in BOOLEAN : ECC_TmpFile(ok)
    \/ \E out \in ClaudeOutcomes : ECC_Run(out)
    \/ \E rev \in RevParseOutcomes, ls \in LsFilesOutcomes : Agent3_CommitInfo(rev, ls)
    \/ Agent3_Except
    \/ Route
    \/ error_handler_node
    \/ Interrupt
    \/ ClickParse
    \/ validate_environment
    \/ run_check_audio
    \/ \E choice \in {"select", "none"} : run_interactive_menu(choice)
    \/ run_workflow
    \/ AudioRemoved
    \/ run_workflow_report
    \/ run_workflow_exception
    \/ run_workflow_interrupted

Spec == Init /\ [][Next]_vars

\* every call the process blocks on returns, fails or times out, and the
\* single thread then takes its next step
FairInit ==
    /\ Init
    /\ audio_path = <<"spec.mp3">>
    /\ processed = {}
    /\ cwd = <<"/home/dev">>

FairSpec == FairInit /\ [][Next]_vars /\ WF_vars(Next)

\* ================================================================== claims

StatusKeys == {"agent_1_status", "agent_2_status", "agent_3_status"}
AllStagesCompleted == \A k \in StatusKeys : state[k] = COMPLETED
Has(k) == k \in DOMAIN state
Created == DOMAIN state # {}
Last(s) == s[Len(s)]
IsPrefix(s, t) == Len(s) <= Len(t) /\ SubSeq(t, 1, Len(s)) = s

\* the run is over by the graph reaching END or by a fault leaving app.invoke
RunEnded == pc \in {"end", "raised"}

\* the positions inside the try bodies of the two execute methods
Stage1Body == {"a1_transcribe", "a1_optimize"}
Stage3Body == {"a3_prompt", "ecc_chdir", "ecc_tmpfile", "ecc_run", "a3_commit_info"}
Stage3Outputs ==
    {"initial_commit_sha", "files_created", "dependencies_installed", "success_message"}

\* C1: at the end of every run (success, stage failure, raised fault) completed
\* is true iff all three stage statuses are 'completed'.
C1_CompletedIffAllStages ==
    RunEnded => (state["completed"] <=> AllStagesCompleted)

C1_Witness == pc = "end" /\ state["completed"] /\ AllStagesCompleted

\* C2: stage 2 is entered only when agent_1_status is 'completed', stage 3 only
\* when agent_2_status is 'completed', and stage 1 is the first node entered.
C2_StagesEnteredInOrder ==
    [][visited' # visited =>
         /\ visited = <<>> => Last(visited') = "agent_1"
         /\ Last(visited') = "agent_2" => state["agent_1_status"] = COMPLETED
         /\ Last(visited') = "agent_3" => state["agent_2_status"] = COMPLETED]_vars

C2_Witness ==
    /\ visited = <<"agent_1", "agent_2", "agent_3">>
    /\ state["agent_3_status"] = IN_PROGRESS

C4_FailedStageEntersErrorHandler ==
    (RunEnded /\ \E k \in StatusKeys : state[k] = FAILED) =>
        (visited # <<>> /\ Last(visited) = "error_handler")

\* C5: after stage 1 ends, either all five specification fields are set and
\* agent_1_status is 'completed', or none is set and it is 'failed'.
C5_Stage1AllOrNothing ==
    (Created /\ state["agent_1_status"] \in {COMPLETED, FAILED}) =>
        \/ SpecFieldSet \subseteq DOMAIN state /\ state["agent_1_status"] = COMPLETED
        \/ SpecFieldSet \cap DOMAIN state = {} /\ state["agent_1_status"] = FAILED

\* C6: a fault inside the body of stage 1 or stage 3 is caught by the stage,
\* which appends exactly one diagnostic to errors, sets its own status to
\* 'failed' and re-raises the same fault; the stage never returns normally with
\* a status other than 'completed'.
C6_FaultAppendsFailsReraises ==
    [][/\ (pc \in Stage1Body /\ exc' # exc /\ exc'.type # "KeyboardInterrupt")
            => pc' = "a1_except"
       /\ (pc \in Stage3Body /\ exc' # exc /\ exc'.type # "KeyboardInterrupt")
            => pc' = "a3_except"
       /\ pc = "a1_except" =>
            /\ pc' = "raised" /\ exc' = exc
            /\ state'["agent_1_status"] = FAILED
            /\ Len(state'["errors"]) = Len(state["errors"]) + 1
            /\ IsPrefix(state["errors"], state'["errors"])
       /\ pc = "a3_except" =>
            /\ pc' = "raised" /\ exc' = exc
            /\ state'["agent_3_status"] = FAILED
            /\ Len(state'["errors"]) = Len(state["errors"]) + 1
            /\ IsPrefix(state["errors"], state'["errors"])
       /\ pc' = "a1_return" => state'["agent_1_status"] = COMPLETED
       /\ pc' = "a3_return" => state'["agent_3_status"] = COMPLETED]_vars

C6_Witness ==
    /\ pc = "raised"
    /\ exc.type = "JSONDecodeError"
    /\ state["agent_1_status"] = FAILED
    /\ Len(state["errors"]) = 1

\* C7: errors is append-only: in every step the old list is a prefix of the new.
C7_ErrorsAppendOnly ==
    [][Created => IsPrefix(state["errors"], state'["errors"])]_vars

C7_Witness ==
    /\ pc = "end"
    /\ InList("error_handler", visited)
    /\ Len(state["errors"]) = 1

\* C8: once execute_claude_code has ended, by return or by any exception, the
\* working directory is the one the process had just before the call.
C8_CwdRestored ==
    (original_cwd # None /\ pc \notin {"ecc_chdir", "ecc_tmpfile", "ecc_run"})
        => cwd = original_cwd

C8_Witness ==
    /\ pc = "a3_except"
    /\ exc.type = "TimeoutExpired"
    /\ prompt_file
    /\ cwd = original_cwd
    /\ cwd # state["local_repo_path"]

\* C9: stage 3 classifies its failures. A timeout gives 'failed' with the
\* timeout diagnostic, a non-zero exit gives 'failed' with a diagnostic that
\* contains the agent's stderr, any other exception gives 'failed' with the
\* generic 'Agent 3 failed' diagnostic; the fault is re-raised, and a timed-out
\* or non-zero-exit invocation leaves no stage 3 output set and never completes.
C9_Stage3FailureClasses ==
    /\ (pc = "raised" /\ state["current_agent"] = "agent_3_sprint_init") =>
          /\ state["agent_3_status"] = FAILED
          /\ exc # NoExc
          /\ state["errors"] # <<>>
          /\ IF exc.type = "TimeoutExpired"
             THEN /\ Last(state["errors"]) = <<"Agent 3 timeout: Claude Code took too long">>
                  /\ Stage3Outputs \cap DOMAIN state = {}
                  /\ ~state["completed"]
             ELSE IF result.ran /\ result.returncode # 0
             THEN /\ Head(Last(state["errors"])) = "Agent 3 failed: "
                  /\ Contains(Last(state["errors"]),
                              <<"Claude Code failed: ">> \o result.stderr)
                  /\ Stage3Outputs \cap DOMAIN state = {}
                  /\ ~state["completed"]
             ELSE Last(state["errors"]) = <<"Agent 3 failed: ">> \o exc.msg
    /\ (pc \in {"a3_commit_info", "a3_return"}) => (result.ran /\ result.returncode = 0)
    /\ (exc.type = "TimeoutExpired" \/ (result.ran /\ result.returncode # 0))
          => pc \in {"a3_except", "raised", "exit"}

C9_Witness ==
    /\ pc = "raised"
    /\ exc.type = "TimeoutExpired"
    /\ state["agent_3_status"] = FAILED

\* C10: whenever agent_3_status is 'completed' or completed is true,
\* initial_commit_sha is set, is not None and is not empty, whatever the git
\* queries answered.
C10_CompletedHasCommitSha ==
    (Created /\ (state["agent_3_status"] = COMPLETED \/ state["completed"])) =>
        /\ Has("initial_commit_sha")
        /\ state["initial_commit_sha"] # None
        /\ state["initial_commit_sha"] # <<>>

C10_Witness ==
    /\ Created
    /\ state["agent_3_status"] = COMPLETED
    /\ state["completed"]
    /\ Has("initial_commit_sha")
    /\ Len(state["initial_commit_sha"]) = 2

\* C11: whenever stage 3 completes, dependencies_installed is true iff one of
\* requirements.txt, package.json, Cargo.toml, go.mod, pom.xml, Gemfile is an
\* element of files_created.
C11_DepsIffManifestTracked ==
    (Created /\ state["agent_3_status"] = COMPLETED) =>
        (state["dependencies_installed"] <=>
            \E name \in {"requirements.txt", "package.json", "Cargo.toml",
                         "go.mod", "pom.xml", "Gemfile"} :
                \E i \in DOMAIN state["files_created"] :
                    state["files_created"][i] = <<name>>)

C11_Witness ==
    /\ Created
    /\ state["agent_3_status"] = COMPLETED
    /\ state["dependencies_installed"]
    /\ state["files_created"] = <<<<"README.md">>, <<"go.mod">>>>

\* C16: whenever stage 3 completes, initial_commit_sha, files_created,
\* dependencies_installed and tests_passing are all present in the record.
C16_Stage3OutputsPresent ==
    (Created /\ state["agent_3_status"] = COMPLETED) =>
        {"initial_commit_sha", "files_created", "dependencies_installed",
         "tests_passing"} \subseteq DOMAIN state

\* C17: in every reachable state the transcript is present only if
\* agent_1_status is 'completed'.
C17_TranscriptOnlyWhenCompleted ==
    Has("transcript") => state["agent_1_status"] = COMPLETED

\* C17 as amended: the transcript is present only once the transcription call
\* of stage 1 has returned its text (so never while agent_1_status is pending
\* and never after transcribe_audio raised), it then holds that text, and it is
\* present whenever agent_1_status is 'completed'.
C17_TranscriptOnlyAfterTranscription ==
    /\ Has("transcript") =>
          /\ state["agent_1_status"] # PENDING
          /\ pc # "a1_transcribe"
          /\ state["transcript"] \in {o.text : o \in {x \in TranscribeOutcomes : x.kind = "ok"}}
    /\ (Created /\ state["agent_1_status"] = COMPLETED) => Has("transcript")

C17_Witness ==
    /\ Has("transcript")
    /\ state["agent_1_status"] = FAILED
    /\ exc.type = "JSONDecodeError"

\* the order of the nodes along the chain
NodeRank(n) ==
    CASE n = "agent_1" -> 1 [] n = "agent_2" -> 2 [] n = "agent_3" -> 3
      [] n = "error_handler" -> 4

\* C12: every run terminates: the nodes agent_1, agent_2, agent_3 and
\* error_handler are each visited at most once and only in forward order, at
\* most four nodes execute, the coding agent is invoked at most once, and every
\* started workflow leaves the graph (END, a raised fault or an interrupt) and
\* the process exits.
C12_RunTerminatesWithoutRevisit ==
    /\ [](/\ Len(visited) <= 4
          /\ \A i, j \in DOMAIN visited : i < j => NodeRank(visited[i]) < NodeRank(visited[j])
          /\ claude_calls <= 1)
    /\ (Created ~> pc \in {"end", "raised", "interrupted", "exit"})
    /\ <>(pc = "exit")

C12_Witness ==
    /\ pc = "exit"
    /\ visited = <<"agent_1", "agent_2", "agent_3">>
    /\ claude_calls = 1

\* every missing credential has its line on the operator's screen
MissingListed ==
    \A i \in DOMAIN missing_vars(env) : <<"  * ", missing_vars(env)[i]>> \in displayed

\* C13: when GEMINI_API_KEY or GITHUB_TOKEN is unset at the start of a run
\* (command run with or without a file, or the bare command), no record is
\* created, no stage is entered, neither the menu nor the workflow is reached,
\* and the process exits with code 1 after listing every missing credential.
C13_MissingCredentialBlocksRun ==
    missing_vars(env) # <<>> =>
        /\ ~Created /\ visited = <<>>
        /\ pc \notin {"menu", "run_check_audio", "run_workflow"}
        /\ pc = "exit" => (exit_code = <<1>> /\ MissingListed)

\* C14: the exit code of a run is 0 when all three stages completed, 1 on a
\* validation failure, a missing audio file or a workflow failure (failed
\* status returned or fault raised), and 130 when the user interrupts.
C14_ExitCodes ==
    pc = "exit" =>
        /\ (Created /\ AllStagesCompleted) => exit_code = <<0>>
        /\ (missing_vars(env) # <<>> \/ audio_seen = "missing") => exit_code = <<1>>
        /\ (Created /\ exc.type = "KeyboardInterrupt") => exit_code = <<130>>
        /\ (Created /\ ~AllStagesCompleted /\ exc.type # "KeyboardInterrupt")
              => exit_code = <<1>>

\* C15: when the audio file given to the run command is found not to exist, the
\* process exits at that check with a failure code: no record is created (so no
\* errors list is appended to), stage 1 is never entered, and neither the
\* repository stage nor the coding agent runs.
C15_MissingAudioAbortsBeforeStage1 ==
    audio_seen = "missing" =>
        /\ pc = "exit" /\ exit_code \in {<<1>>, <<2>>}
        /\ ~Created /\ visited = <<>> /\ claude_calls = 0

C15_Witness ==
    /\ audio_seen = "missing"
    /\ missing_vars(env) = <<>>
    /\ pc = "exit" /\ exit_code = <<1>>
    /\ <<"Audio file not found: ">> \o audio_path \in displayed

\* C18: when a run with a failed stage has exited, every diagnostic of the
\* record's errors list has been shown to the operator.
C18_DiagnosticsDisplayed ==
    (pc = "exit" /\ Created /\ \E k \in StatusKeys : state[k] = FAILED) =>
        \A i \in DOMAIN state["errors"] :
            \E d \in displayed : Contains(d, state["errors"][i])

\* C19: the audio file is moved to the processed directory iff the run ended
\* with completed true; its destination is a slot no file occupied, the first
\* such one in the order name, _1, _2, ...; a failed or interrupted run moves
\* nothing.
C19_MovedIffCompleted ==
    /\ moved_to # <<>> => (pc = "exit" /\ Created /\ state["completed"])
    /\ (pc = "exit" /\ Created /\ state["completed"]) => moved_to # <<>>
    /\ moved_to # <<>> =>
          /\ moved_to[1] \notin processed
          /\ \A k \in 0..(moved_to[1] - 1) : k \in processed

C19_Witness ==
    /\ pc = "exit"
    /\ processed = 0..(MaxTaken - 1)
    /\ moved_to = <<MaxTaken>>
    /\ ~audio_exists

\* the keys of the record whose presence or value a step changes
ChangedKeys ==
    {k \in DOMAIN state' : k \notin DOMAIN state \/ state'[k] # state[k]}
    \cup (DOMAIN state \ DOMAIN state')

\* the positions of the three stages and the keys that are theirs
Stage1Pos == {"agent_1", "a1_transcribe", "a1_optimize", "a1_except"}
Stage2Pos == {"agent_2", "a2_run"}
Stage3Pos == {"agent_3", "a3_except"} \cup Stage3Body
Stage1Own == {"transcript", "agent_1_status"} \cup SpecFieldSet
Stage3Own == {"agent_3_status", "completed"} \cup Stage3Outputs

\* C21: stage 1 changes only transcript, the five specification fields,
\* current_agent, agent_1_status and, when it fails, errors; stage 3 changes
\* only its four outputs, completed, current_agent, agent_3_status and, when it
\* fails, errors; the error handler changes only completed; stage 2 changes
\* no field of stage 1 or 3; no other step changes the record; audio_file_path
\* never changes once the record exists.
C21_StagesWriteOwnBlock ==
    [][Created =>
        /\ pc \in Stage1Pos =>
              /\ ChangedKeys \subseteq Stage1Own \cup {"current_agent", "errors"}
              /\ "errors" \in ChangedKeys => state'["agent_1_status"] = FAILED
        /\ pc \in Stage2Pos =>
              ChangedKeys \cap (Stage1Own \cup Stage3Outputs \cup {"agent_3_status"}) = {}
        /\ pc \in Stage3Pos =>
              /\ ChangedKeys \subseteq Stage3Own \cup {"current_agent", "errors"}
              /\ "errors" \in ChangedKeys => state'["agent_3_status"] = FAILED
        /\ pc = "error_handler" => ChangedKeys \subseteq {"completed"}
        /\ pc \notin Stage1Pos \cup Stage2Pos \cup Stage3Pos \cup {"error_handler"}
              => ChangedKeys = {}
        /\ "audio_file_path" \notin ChangedKeys]_vars

C21_Witness ==
    /\ pc = "a3_return"
    /\ Stage1Own \cup Stage3Own \subseteq DOMAIN state
    /\ state["audio_file_path"] \in AudioPaths

\* C22: when the audio file is missing as stage 1 executes, stage 1 ends with
\* status 'failed' and one diagnostic, and no remote call has been issued:
\* neither the upload nor a generative-model request.
C22_MissingAudioNoRemoteCall ==
    (/\ Created
     /\ state["current_agent"] = "agent_1_transcription"
     /\ exc.type = "FileNotFoundError") =>
        /\ gemini_calls = <<>>
        /\ pc \in {"a1_except", "raised", "exit"}
        /\ pc # "a1_except" =>
              /\ state["agent_1_status"] = FAILED
              /\ state["errors"] =
                    << <<"Agent 1 failed: ", "Audio file not found: ">>
                       \o state["audio_file_path"] >>

C22_Witness ==
    /\ pc = "raised"
    /\ exc.type = "FileNotFoundError"
    /\ state["agent_1_status"] = FAILED
    /\ ~audio_exists
    /\ gemini_calls = <<>>

\* the three stage statuses in stage order, and the diagnostics of stages 1, 3
StatusList == <<state["agent_1_status"], state["agent_2_status"], state["agent_3_status"]>>
OwnDiagnostics ==
    {i \in DOMAIN state["errors"] :
        Head(state["errors"][i]) \in {"Agent 1 failed: ", "Agent 3 failed: ",
                                      "Agent 3 timeout: Claude Code took too long"}}

\* C23: in every state with a record the stage statuses read completed*, then
\* at most one in_progress or failed, then pending*; so at most one stage is
\* failed, and errors holds at most one diagnostic of stages 1 and 3.
C23_StatusPrefixPattern ==
    Created =>
        /\ \E n \in 0..3 :
              /\ \A i \in 1..n : StatusList[i] = COMPLETED
              /\ n < 3 => StatusList[n + 1] \in {IN_PROGRESS, FAILED, PENDING}
              /\ \A i \in (n + 2)..3 : StatusList[i] = PENDING
        /\ Cardinality({i \in 1..3 : StatusList[i] = FAILED}) <= 1
        /\ Cardinality(OwnDiagnostics) <= 1

C23_Witness ==
    /\ pc = "exit"
    /\ Created
    /\ StatusList = <<COMPLETED, COMPLETED, FAILED>>
    /\ Cardinality(OwnDiagnostics) = 1

\* C24: once execute_claude_code has ended, by a return, a non-zero exit, a
\* timeout or another exception after the file was created, the temporary
\* prompt file is gone: it is on disk only while the subprocess call is ahead.
C24_TempFileDeleted ==
    prompt_file => pc = "ecc_run"

\* the paths printed by `git ls-files`, one list entry per line of output
ReportedPaths(stdout) ==
    LET names == SelectSeq(stdout, LAMBDA a : a # NL)
    IN  [i \in 1..Len(names) |-> <<names[i]>>]

\* C25: when stage 3 has completed, files_created has exactly one entry per
\* path the tracked-file query reported, in its order, and nothing else; with
\* no tracked file it is the empty list.
C25_FilesCreatedAreTrackedPaths ==
    (Created /\ state["agent_3_status"] = COMPLETED) =>
        state["files_created"] = ReportedPaths(ls_stdout)

====
